---- MODULE Spec2Model ----
(***************************************************************************)
(* Zod schema generator for Knex table definitions (createSelectSchema.js) *)
(*                                                                         *)
(* Text is modelled by TLA+ strings, taken apart with Len, SubSeq, Head,   *)
(* Tail and \o, so that every conversion of the source (lower-casing,      *)
(* split, trim, the cast-stripping regular expression, Number coercion,    *)
(* template literals) is computed character by character.                  *)
(* JavaScript values are tagged records: [kind |-> "undefined"],           *)
(* [kind |-> "null"], [kind |-> "boolean", bool |-> b],                     *)
(* [kind |-> "number", num |-> n], [kind |-> "string", str |-> s],          *)
(* [kind |-> "array", items |-> <<...>>].                                  *)
(***************************************************************************)
EXTENDS Integers, Sequences, FiniteSets, TLC

VARIABLES pgType, columnInfo, zodSchema, mpc,
          client, provider, tableName, options, pc, columnInfoCalls, outcome,
          z, clientReads

mapperVars == <<pgType, columnInfo, zodSchema, mpc>>
assemblerVars == <<client, provider, tableName, options, pc, columnInfoCalls, outcome,
                   z, clientReads>>
vars == <<pgType, columnInfo, zodSchema, mpc,
          client, provider, tableName, options, pc, columnInfoCalls, outcome,
          z, clientReads>>

(***************************************************************************)
(* JavaScript values                                                       *)
(***************************************************************************)
JsUndefined == [kind |-> "undefined"]
JsNull == [kind |-> "null"]
JsBool(b) == [kind |-> "boolean", bool |-> b]
JsNum(n) == [kind |-> "number", num |-> n]
JsStr(s) == [kind |-> "string", str |-> s]
JsArray(items) == [kind |-> "array", items |-> items]
JsError(message) == [kind |-> "error", message |-> message]

\* ToBoolean: the truthiness test of `if (v)` and `a && b`
Truthy(v) ==
  CASE v.kind = "undefined" -> FALSE
    [] v.kind = "null" -> FALSE
    [] v.kind = "boolean" -> v.bool
    [] v.kind = "number" -> v.num # 0
    [] v.kind = "string" -> v.str # ""
    [] OTHER -> TRUE

(***************************************************************************)
(* Characters and strings                                                  *)
(***************************************************************************)
UpperAlpha == "ABCDEFGHIJKLMNOPQRSTUVWXYZ"
LowerAlpha == "abcdefghijklmnopqrstuvwxyz"
DigitChars == "0123456789"

Ch(s, i) == SubSeq(s, i, i)
CharsOf(s) == {Ch(s, i) : i \in 1..Len(s)}

UpperLetters == CharsOf(UpperAlpha)
LowerLetters == CharsOf(LowerAlpha)
Digits == CharsOf(DigitChars)
WhiteSpace == {" ", "\t", "\n", "\r", "\f"}

\* String.prototype.startsWith / endsWith / includes / indexOf
StartsWith(s, p) == Len(s) >= Len(p) /\ SubSeq(s, 1, Len(p)) = p
EndsWith(s, p) == Len(s) >= Len(p) /\ SubSeq(s, Len(s) - Len(p) + 1, Len(s)) = p
OccursAt(s, p, i) == i >= 1 /\ i + Len(p) - 1 <= Len(s) /\ SubSeq(s, i, i + Len(p) - 1) = p
\* 1-based position of the first occurrence at or after i, 0 when there is none
RECURSIVE IndexFrom(_, _, _)
IndexFrom(s, p, i) ==
  IF i + Len(p) - 1 > Len(s) THEN 0
  ELSE IF SubSeq(s, i, i + Len(p) - 1) = p THEN i
  ELSE IndexFrom(s, p, i + 1)
IndexOf(s, p) == IndexFrom(s, p, 1)
Includes(s, p) == IndexOf(s, p) # 0
\* 1-based position of the last occurrence at or before i, 0 when there is none
RECURSIVE LastIndexFrom(_, _, _)
LastIndexFrom(s, p, i) ==
  IF i < 1 THEN 0
  ELSE IF SubSeq(s, i, i + Len(p) - 1) = p THEN i
  ELSE LastIndexFrom(s, p, i - 1)
LastIndexOf(s, p) == LastIndexFrom(s, p, Len(s) - Len(p) + 1)

\* String.prototype.toLowerCase (ASCII letters)
LowerChar(c) ==
  IF c \in UpperLetters
  THEN Ch(LowerAlpha, CHOOSE i \in 1..26 : Ch(UpperAlpha, i) = c)
  ELSE c
RECURSIVE ToLowerCase(_)
ToLowerCase(s) ==
  IF s = "" THEN "" ELSE LowerChar(Head(s)) \o ToLowerCase(Tail(s))

\* s.split(sep)[0]: the text before the first separator, all of s without one
SplitFirst(s, sep) ==
  LET i == IndexOf(s, sep) IN IF i # 0 THEN SubSeq(s, 1, i - 1) ELSE s

\* String.prototype.trim
RECURSIVE TrimStart(_)
TrimStart(s) ==
  IF s # "" /\ Head(s) \in WhiteSpace THEN TrimStart(Tail(s)) ELSE s
RECURSIVE TrimEnd(_)
TrimEnd(s) ==
  IF s # "" /\ Ch(s, Len(s)) \in WhiteSpace
  THEN TrimEnd(SubSeq(s, 1, Len(s) - 1))
  ELSE s
Trim(s) == TrimEnd(TrimStart(s))

\* s.replace(p, r) with a string pattern: the first occurrence only
ReplaceFirst(s, p, r) ==
  LET i == IndexOf(s, p)
  IN IF i # 0 THEN SubSeq(s, 1, i - 1) \o r \o SubSeq(s, i + Len(p), Len(s)) ELSE s

\* s.slice(1, -1)
SliceInner(s) == SubSeq(s, 2, Len(s) - 1)

\* decimal text of an integer, as a template literal interpolates it
RECURSIVE NatToString(_)
NatToString(n) ==
  IF n < 10 THEN Ch(DigitChars, n + 1)
  ELSE NatToString(n \div 10) \o Ch(DigitChars, (n % 10) + 1)
NumToString(n) == IF n < 0 THEN "-" \o NatToString(0 - n) ELSE NatToString(n)

\* String(v)
ToStr(v) ==
  CASE v.kind = "string" -> v.str
    [] v.kind = "number" -> NumToString(v.num)
    [] v.kind = "boolean" -> (IF v.bool THEN "true" ELSE "false")
    [] v.kind = "null" -> "null"
    [] OTHER -> "undefined"

(***************************************************************************)
(* Number(text): the coercion isNaN applies to its argument.               *)
(* StringNumericLiteral of ECMAScript: optional white space around an      *)
(* optionally signed decimal literal (or Infinity), or an unsigned         *)
(* hexadecimal, octal or binary integer literal; the empty text is 0.      *)
(***************************************************************************)
HexDigits == Digits \cup CharsOf("abcdefABCDEF")
OctDigits == CharsOf("01234567")
BinDigits == CharsOf("01")

AllIn(s, set) == \A i \in 1..Len(s) : Ch(s, i) \in set

\* the position after the longest run of decimal digits that starts at i
RECURSIVE DigitsEnd(_, _)
DigitsEnd(s, i) ==
  IF i <= Len(s) /\ Ch(s, i) \in Digits THEN DigitsEnd(s, i + 1) ELSE i

\* ExponentPart from position i to the end of s
IsExponentAt(s, i) ==
  /\ i <= Len(s)
  /\ Ch(s, i) \in {"e", "E"}
  /\ LET j == IF i + 1 <= Len(s) /\ Ch(s, i + 1) \in {"+", "-"} THEN i + 2 ELSE i + 1
     IN j <= Len(s) /\ DigitsEnd(s, j) = Len(s) + 1

IsUnsignedDecimal(s) ==
  \/ s = "Infinity"
  \/ LET a == DigitsEnd(s, 1)
         hasInt == a > 1
         hasDot == a <= Len(s) /\ Ch(s, a) = "."
         b == IF hasDot THEN DigitsEnd(s, a + 1) ELSE a
         hasFrac == hasDot /\ b > a + 1
     IN /\ hasInt \/ hasFrac
        /\ b = Len(s) + 1 \/ IsExponentAt(s, b)

IsNonDecimalInteger(s) ==
  /\ Len(s) >= 3
  /\ Ch(s, 1) = "0"
  /\ LET d == SubSeq(s, 3, Len(s))
     IN \/ Ch(s, 2) \in {"x", "X"} /\ AllIn(d, HexDigits)
        \/ Ch(s, 2) \in {"o", "O"} /\ AllIn(d, OctDigits)
        \/ Ch(s, 2) \in {"b", "B"} /\ AllIn(d, BinDigits)

\* isNaN(text) for a string argument
IsNaN(s) ==
  LET t == Trim(s)
  IN ~ \/ t = ""
       \/ IsNonDecimalInteger(t)
       \/ IsUnsignedDecimal(IF Head(t) \in {"+", "-"} THEN Tail(t) ELSE t)

(***************************************************************************)
(* mapPgTypeToZod                                                          *)
(***************************************************************************)
\* const baseType = pgType.toLowerCase().split('(')[0].trim()
\* mutant: the token is not lower-cased
NormalizeTypeCaseSensitive(t) == Trim(SplitFirst(t, "("))
NormalizeType(t) == Trim(SplitFirst(ToLowerCase(t), "("))

\* the case labels of the switch, group by group
StringTypes == {"character varying", "varchar", "character", "char", "text"}
\* mutant: the case label 'bigserial' is missing
IntegerTypesNoBigserial ==
  {"integer", "int", "int4", "smallint", "int2", "bigint", "int8", "serial"}
IntegerTypes == {"integer", "int", "int4", "smallint", "int2", "bigint", "int8",
                 "serial", "bigserial"}
RealTypes == {"real", "float4", "double precision", "float8", "numeric", "decimal"}
BooleanTypes == {"boolean", "bool"}
DateTypes == {"date"}
TimestampTypes == {"timestamp", "timestamp without time zone",
                   "timestamp with time zone", "timestamptz"}
TimeTypes == {"time", "time without time zone", "time with time zone", "timetz"}
JsonTypes == {"json", "jsonb"}
UuidTypes == {"uuid"}
BinaryTypes == {"bytea"}
ArrayTypes == {"text[]", "varchar[]", "integer[]", "bigint[]"}
GeometricTypes == {"point", "line", "lseg", "box", "path", "polygon", "circle"}
NetworkTypes == {"cidr", "inet", "macaddr", "macaddr8"}
BitStringTypes == {"bit", "bit varying", "varbit"}
MoneyTypes == {"money"}
RangeTypes == {"int4range", "int8range", "numrange", "tsrange", "tstzrange", "daterange"}

\* mutant: the pattern does not require a letter or underscore in front
IsBareIdentifierAnyStart(t) ==
  /\ t # ""
  /\ AllIn(t, LowerLetters \cup Digits \cup {"_"})

\* baseType.match(/^[a-z_][a-z0-9_]*$/)
IsBareIdentifier(t) ==
  /\ t # ""
  /\ Head(t) \in LowerLetters \cup {"_"}
  /\ AllIn(Tail(t), LowerLetters \cup Digits \cup {"_"})

\* cleanDefault.replace(/::[a-zA-Z_][a-zA-Z0-9_]*(\[\])?/g, '')
CastStart == LowerLetters \cup UpperLetters \cup {"_"}
CastPart == CastStart \cup Digits
RECURSIVE CastNameEnd(_, _)
CastNameEnd(s, i) ==
  IF i <= Len(s) /\ Ch(s, i) \in CastPart THEN CastNameEnd(s, i + 1) ELSE i
RECURSIVE StripCasts(_)
StripCasts(s) ==
  IF s = "" THEN ""
  ELSE IF StartsWith(s, "::") /\ Len(s) >= 3 /\ Ch(s, 3) \in CastStart
       THEN LET e == CastNameEnd(s, 4)
                f == IF OccursAt(s, "[]", e) THEN e + 2 ELSE e
            IN StripCasts(SubSeq(s, f, Len(s)))
       ELSE Head(s) \o StripCasts(Tail(s))

RECURSIVE mapPgTypeToZod(_, _)

\* mutant: a token that is no case label and no identifier has no expression
BaseSchemaStrict(baseType, info) ==
  CASE baseType \in StringTypes ->
         IF Truthy(info.maxLength) /\ info.maxLength.num > 0
         THEN "z.string().max(" \o NumToString(info.maxLength.num) \o ")"
         ELSE "z.string()"
    [] baseType \in IntegerTypes -> "z.number().int()"
    [] baseType \in RealTypes -> "z.number()"
    [] baseType \in BooleanTypes -> "z.boolean()"
    [] baseType \in DateTypes -> "z.string().date()"
    [] baseType \in TimestampTypes -> "z.string().datetime()"
    [] baseType \in TimeTypes -> "z.string().time()"
    [] baseType \in JsonTypes -> "z.unknown()"
    [] baseType \in UuidTypes -> "z.string().uuid()"
    [] baseType \in BinaryTypes -> "z.instanceof(Buffer)"
    [] baseType \in ArrayTypes ->
         LET arrayBaseType == ReplaceFirst(baseType, "[]", "")
             elementSchema == mapPgTypeToZod(arrayBaseType,
                                             [info EXCEPT !.maxLength = JsNull])
         IN "z.array(" \o elementSchema \o ")"
    [] baseType \in GeometricTypes -> "z.string()"
    [] baseType \in NetworkTypes -> "z.string()"
    [] baseType \in BitStringTypes -> "z.string()"
    [] baseType \in MoneyTypes -> "z.string()"
    [] baseType \in RangeTypes -> "z.string()"
    [] OTHER -> IF IsBareIdentifier(baseType) THEN "z.string()" ELSE "undefined"

\* the switch (baseType) statement: the base validator of the column
BaseSchema(baseType, info) ==
  CASE baseType \in StringTypes ->
         IF Truthy(info.maxLength) /\ info.maxLength.num > 0
         THEN "z.string().max(" \o NumToString(info.maxLength.num) \o ")"
         ELSE "z.string()"
    [] baseType \in IntegerTypes -> "z.number().int()"
    [] baseType \in RealTypes -> "z.number()"
    [] baseType \in BooleanTypes -> "z.boolean()"
    [] baseType \in DateTypes -> "z.string().date()"
    [] baseType \in TimestampTypes -> "z.string().datetime()"
    [] baseType \in TimeTypes -> "z.string().time()"
    [] baseType \in JsonTypes -> "z.unknown()"
    [] baseType \in UuidTypes -> "z.string().uuid()"
    [] baseType \in BinaryTypes -> "z.instanceof(Buffer)"
    [] baseType \in ArrayTypes ->
         LET arrayBaseType == ReplaceFirst(baseType, "[]", "")
             elementSchema == mapPgTypeToZod(arrayBaseType,
                                             [info EXCEPT !.maxLength = JsNull])
         IN "z.array(" \o elementSchema \o ")"
    [] baseType \in GeometricTypes -> "z.string()"
    [] baseType \in NetworkTypes -> "z.string()"
    [] baseType \in BitStringTypes -> "z.string()"
    [] baseType \in MoneyTypes -> "z.string()"
    [] baseType \in RangeTypes -> "z.string()"
    [] OTHER -> IF IsBareIdentifier(baseType) THEN "z.string()" ELSE "z.unknown()"

\* mutant: tests nullable !== false, so that an absent flag counts as nullable
NullableUnlessFalse(nullable) ==
  IF nullable # JsBool(FALSE) THEN ".nullable()" ELSE ""

\* if (nullable) zodSchema += '.nullable()'
NullableDecorator(nullable) == IF Truthy(nullable) THEN ".nullable()" ELSE ""

\* the if / else-if chain over cleanDefault: the text appended to zodSchema
DefaultSuffix(cleanDefault) ==
  IF StartsWith(cleanDefault, "'") /\ EndsWith(cleanDefault, "'")
  THEN ".default(\"" \o SliceInner(cleanDefault) \o "\")"
  ELSE IF ~IsNaN(cleanDefault) /\ cleanDefault # ""
  THEN ".default(" \o cleanDefault \o ")"
  ELSE IF cleanDefault = "true" \/ cleanDefault = "false"
  THEN ".default(" \o cleanDefault \o ")"
  ELSE IF Includes(cleanDefault, "now()") \/ Includes(cleanDefault, "CURRENT_TIMESTAMP")
  THEN ""
  ELSE IF Includes(cleanDefault, "nextval(")
  THEN ""
  ELSE ".default(\"" \o cleanDefault \o "\")"

\* if (defaultValue !== null && defaultValue !== undefined) { ... }
DefaultDecorator(defaultValue) ==
  IF defaultValue.kind # "null" /\ defaultValue.kind # "undefined"
  THEN DefaultSuffix(StripCasts(ToStr(defaultValue)))
  ELSE ""

\* mutant: the default decorator is appended before the nullable decorator
DecorateDefaultFirst(base, nullablePart, defaultPart) == base \o defaultPart \o nullablePart

\* base validator, then the nullable decorator, then the default decorator
Decorate(base, nullablePart, defaultPart) == base \o nullablePart \o defaultPart

mapPgTypeToZod(type, info) ==
  Decorate(BaseSchema(NormalizeType(type), info),
           NullableDecorator(info.nullable),
           DefaultDecorator(info.defaultValue))

\* mutant: the array cases clear maxLength on the caller's descriptor
DescriptorAfterInPlace(type, info) ==
  IF NormalizeType(type) \in ArrayTypes THEN [info EXCEPT !.maxLength = JsNull] ELSE info

\* the caller's descriptor object once mapPgTypeToZod has returned: its
\* properties are read by destructuring, and the array cases hand a copy,
\* { ...columnInfo, maxLength: null }, to the recursive call
DescriptorAfter(type, info) == info

(***************************************************************************)
(* createSelectSchema                                                      *)
(* The answer of knex(tableName).columnInfo() is an object                 *)
(* [kind |-> "object", entries |-> <<[name |-> .., column |-> ..], ..>>]   *)
(* whose entries are in the object's own key order, or null.               *)
(***************************************************************************)
JsObject(entries) == [kind |-> "object", entries |-> entries]

\* Object.keys(columnInfo)
ObjectKeys(obj) == [i \in DOMAIN obj.entries |-> obj.entries[i].name]
\* columnInfo[columnName]
Property(obj, key) ==
  obj.entries[CHOOSE i \in DOMAIN obj.entries : obj.entries[i].name = key].column
\* array.includes(x)
ArrayIncludes(arr, x) == \E i \in DOMAIN arr.items : arr.items[i] = x

\* a destructuring default applies to an undefined property only
OrDefault(v, d) == IF v.kind = "undefined" THEN d ELSE v

\* mutant: walks the allow-list and keeps its names that are columns
FilterColumnsInListOrder(keys, columns) ==
  IF Truthy(columns) /\ Len(columns.items) > 0
  THEN LET known(col) == \E i \in DOMAIN keys : keys[i] = col
       IN SelectSeq(columns.items, known)
  ELSE keys

\* mutant: an allow-list of one name is not applied
FilterColumnsSeveral(keys, columns) ==
  IF Truthy(columns) /\ Len(columns.items) > 1
  THEN LET keep(col) == ArrayIncludes(columns, col) IN SelectSeq(keys, keep)
  ELSE keys

\* if (columns && columns.length > 0) ... filter(col => columns.includes(col))
FilterColumns(keys, columns) ==
  IF Truthy(columns) /\ Len(columns.items) > 0
  THEN LET keep(col) == ArrayIncludes(columns, col) IN SelectSeq(keys, keep)
  ELSE keys

\* mutant: a deny-list of one name is not applied
FilterExcludeSeveral(keys, exclude) ==
  IF Len(exclude.items) > 1
  THEN LET keep(col) == ~ArrayIncludes(exclude, col) IN SelectSeq(keys, keep)
  ELSE keys

\* if (exclude.length > 0) ... filter(col => !exclude.includes(col))
FilterExclude(keys, exclude) ==
  IF Len(exclude.items) > 0
  THEN LET keep(col) == ~ArrayIncludes(exclude, col) IN SelectSeq(keys, keep)
  ELSE keys

ColumnsToProcess(info, opts) ==
  FilterExclude(FilterColumns(ObjectKeys(info), opts.columns),
                OrDefault(opts.exclude, JsArray(<<>>)))

\* schemaProperties.push(`  ${columnName}: ${zodType}`)
SchemaProperty(info, columnName) ==
  LET column == Property(info, columnName)
      zodType == mapPgTypeToZod(column.type, column)
  IN "  " \o columnName \o ": " \o zodType

\* mutant: the loop stops one column early
SchemaPropertiesButLast(info, columnsToProcess) ==
  [i \in 1..(Len(columnsToProcess) - 1) |-> SchemaProperty(info, columnsToProcess[i])]

SchemaProperties(info, columnsToProcess) ==
  [i \in DOMAIN columnsToProcess |-> SchemaProperty(info, columnsToProcess[i])]

\* Array.prototype.join
RECURSIVE Join(_, _)
Join(parts, sep) ==
  IF Len(parts) = 0 THEN ""
  ELSE IF Len(parts) = 1 THEN parts[1]
  ELSE parts[1] \o sep \o Join(Tail(parts), sep)

\* mutant: strict has no default, an absent flag is falsy
SchemaModeNoDefault(opts) ==
  IF Truthy(opts.strict) THEN "strict" ELSE "passthrough"

\* const schemaMode = strict ? 'strict' : 'passthrough'
SchemaMode(opts) ==
  IF Truthy(OrDefault(opts.strict, JsBool(TRUE))) THEN "strict" ELSE "passthrough"

SchemaCode(schemaProperties, schemaMode) ==
  "z.object({\n" \o Join(schemaProperties, ",\n") \o "\n})." \o schemaMode \o "()"

Fulfilled(v) == [status |-> "fulfilled", value |-> v]
Rejected(message) == [status |-> "rejected", value |-> message]
Pending == [status |-> "pending", value |-> ""]

UnsupportedMessage == "createSelectSchema currently only supports PostgreSQL"
\* mutant: the message does not name the table
NotFoundMessageNoName(table) == "Table not found or has no columns"
NotFoundMessage(table) == "Table \"" \o table \o "\" not found or has no columns"
\* mutant: the cause is left out of the message
FailedMessageNoCause(table, message) ==
  "Failed to create schema for table \"" \o table \o "\""
FailedMessage(table, message) ==
  "Failed to create schema for table \"" \o table \o "\": " \o message

\* the try block once columnInfo() has settled with `settled`
SchemaFromColumnInfo(settled, table, opts) ==
  IF settled.status = "rejected"
  THEN Rejected(FailedMessage(table, settled.value.message))
  ELSE LET info == settled.value
       IN IF ~Truthy(info) \/ Len(ObjectKeys(info)) = 0
          THEN Rejected(FailedMessage(table, NotFoundMessage(table)))
          ELSE Fulfilled(SchemaCode(SchemaProperties(info, ColumnsToProcess(info, opts)),
                                    SchemaMode(opts)))

\* the provider's answer once the try block is over: the loop has passed the
\* descriptor object of each column it processes to mapPgTypeToZod
ColumnInfoAfter(settled, opts) ==
  IF settled.status = "rejected" THEN settled
  ELSE LET info == settled.value
       IN IF ~Truthy(info) \/ Len(ObjectKeys(info)) = 0 THEN settled
          ELSE LET columnsToProcess == ColumnsToProcess(info, opts)
                   after(entry) ==
                     IF \E j \in DOMAIN columnsToProcess : columnsToProcess[j] = entry.name
                     THEN [entry EXCEPT
                             !.column = DescriptorAfter(entry.column.type, entry.column)]
                     ELSE entry
               IN Fulfilled(JsObject([i \in DOMAIN info.entries |-> after(info.entries[i])]))

\* if (!knex.client.config.client.includes('pg')) throw ...
IsPostgres(clientName) == Includes(clientName, "pg")

(***************************************************************************)
(* createSelectSchemaObject: the text is evaluated against the Zod         *)
(* instance z by new Function('z', `return ${schemaCode}`)(z).             *)
(* A Zod instance is [kind |-> "runtime", constructors |-> S], S the names *)
(* n for which z.n is a function; the schema values it builds have every   *)
(* method the text chains.                                                 *)
(***************************************************************************)
JsRuntime(constructors) == [kind |-> "runtime", constructors |-> constructors]
\* the value of the expression `code` under the instance `runtime`
JsSchema(code, runtime) == [kind |-> "schema", code |-> code, runtime |-> runtime]

InvalidZodMessage == "Valid Zod instance must be provided as third parameter"
\* mutant: the cause is rethrown as it is
EvaluationMessageBare(message) == message
EvaluationMessage(message) == "Failed to create Zod schema object: " \o message

\* mutant: only the truthiness of z is tested
ValidRuntimeTruthy(runtime) == Truthy(runtime)

\* !(!z || typeof z.object !== 'function')
ValidRuntime(runtime) ==
  /\ Truthy(runtime)
  /\ runtime.kind = "runtime"
  /\ "object" \in runtime.constructors

\* the double quotes that open or close a string literal of the text
QuoteMarks(text) ==
  {p \in 1..Len(text) : Ch(text, p) = "\"" /\ (p = 1 \/ Ch(text, p - 1) # "\\")}
\* the parentheses of the text that stand outside its string literals
CodeMarks(text, mark) ==
  LET quotes == QuoteMarks(text)
  IN {p \in 1..Len(text) :
        Ch(text, p) = mark /\ Cardinality({q \in quotes : q < p}) % 2 = 0}

\* the index of the parenthesis that closes the one at index open, 0 if none
CloseOf(opens, closes, open) ==
  LET balanced(j) ==
        Cardinality({c \in closes : open < c /\ c <= j})
          = Cardinality({o \in opens : open < o /\ o < j}) + 1
      candidates == {j \in closes : j > open /\ balanced(j)}
  IN IF candidates = {} THEN 0
     ELSE CHOOSE j \in candidates : \A k \in candidates : j <= k

\* the calls z.name(...) of the text: the name, and where the call is made,
\* that is once its arguments are evaluated
ConstructorCalls(text) ==
  LET opens == CodeMarks(text, "(")
      closes == CodeMarks(text, ")")
  IN {[name |-> SubSeq(text, i + 2, IndexFrom(text, "(", i) - 1),
       at |-> CloseOf(opens, closes, IndexFrom(text, "(", i))] :
        i \in {k \in 1..Len(text) :
                 /\ OccursAt(text, "z.", k)
                 /\ k = 1 \/ Ch(text, k - 1) \in {" ", "("}}}

\* try { return schemaFunction(z) } catch (error) { throw new Error(...) }
EvaluateSchema(schemaCode, runtime) ==
  LET failing == {c \in ConstructorCalls(schemaCode) : c.name \notin runtime.constructors}
  IN IF failing = {}
     THEN [status |-> "fulfilled", object |-> JsSchema(schemaCode, runtime)]
     ELSE LET first == CHOOSE c \in failing : \A d \in failing : c.at <= d.at
          IN Rejected(EvaluationMessage("z." \o first.name \o " is not a function"))

(***************************************************************************)
(* Structured-document columns: caller-supplied expressions and named      *)
(* patterns.  options.jsonbSchemas maps a column name to an expression     *)
(* text, options.jsonbPatterns maps a column name to the name of an entry  *)
(* of the pattern library (specification 4.1 step 5, 4.3, 4.4 step 3, 7).  *)
(***************************************************************************)
\* obj[key], undefined when obj is no object or has no such key
Lookup(obj, key) ==
  IF obj.kind = "object" /\ \E i \in DOMAIN obj.entries : obj.entries[i].name = key
  THEN Property(obj, key)
  ELSE JsUndefined

\* the names of the library's entries
PatternNames ==
  {"record", "stringRecord", "objectArray", "stringArray", "numberArray",
   "userProfile", "settings", "metadata", "address", "tags"}

\* the fragment of a library entry; record and objectArray take a parameter
getCommonJsonbPatterns(name, parameter) ==
  CASE name = "record" -> "z.record(" \o parameter \o ")"
    [] name = "stringRecord" -> "z.record(z.string())"
    [] name = "objectArray" -> "z.array(" \o parameter \o ")"
    [] name = "stringArray" -> "z.array(z.string())"
    [] name = "numberArray" -> "z.array(z.number())"
    [] name = "userProfile" ->
         "z.object({ avatar?: z.string(), bio?: z.string(), social?: z.record(z.string()) })"
    [] name = "settings" ->
         "z.object({ theme?: z.string(), notifications?: z.boolean() })"
    [] name = "metadata" -> "z.record(z.union([z.string(), z.number(), z.boolean()]))"
    [] name = "address" ->
         "z.object({ street: z.string(), city: z.string(), zipCode: z.string() })"
    [] name = "tags" -> "z.array(z.string())"

Mapped(text) == [failed |-> FALSE, text |-> text]
LookupFailure(message) == [failed |-> TRUE, text |-> message]
UnknownPatternMessage(name) == "Unknown JSONB pattern \"" \o name \o "\""

\* mutant: a name the library does not have resolves to the opaque validator
resolvePatternLenient(name) ==
  IF name \in PatternNames
  THEN Mapped(getCommonJsonbPatterns(name, "z.unknown()"))
  ELSE Mapped("z.unknown()")

\* a named entry without parameter, or a lookup failure
resolvePattern(name) ==
  IF name \in PatternNames
  THEN Mapped(getCommonJsonbPatterns(name, "z.unknown()"))
  ELSE LookupFailure(UnknownPatternMessage(name))

\* the override context of one column
OverrideContext(opts, columnName) ==
  [override |-> Lookup(opts.jsonbSchemas, columnName),
   pattern |-> Lookup(opts.jsonbPatterns, columnName)]

\* mutant: the named pattern is consulted before the literal override
StructuredCorePatternFirst(context) ==
  IF context.pattern.kind = "string" THEN resolvePattern(context.pattern.str)
  ELSE IF context.override.kind = "string" THEN Mapped(context.override.str)
  ELSE Mapped("z.unknown()")

\* the core expression of a json or jsonb column: the literal override, else
\* the named pattern, else the opaque validator
StructuredCore(context) ==
  IF context.override.kind = "string" THEN Mapped(context.override.str)
  ELSE IF context.pattern.kind = "string" THEN resolvePattern(context.pattern.str)
  ELSE Mapped("z.unknown()")

\* mutant: the override context is consulted for jsonb columns only
mapColumnTypeJsonbOnly(type, info, context) ==
  IF NormalizeType(type) = "jsonb"
  THEN LET core == StructuredCore(context)
       IN IF core.failed THEN core
          ELSE Mapped(Decorate(core.text, NullableDecorator(info.nullable),
                               DefaultDecorator(info.defaultValue)))
  ELSE Mapped(mapPgTypeToZod(type, info))

\* the mapper with an override context
mapColumnType(type, info, context) ==
  IF NormalizeType(type) \in JsonTypes
  THEN LET core == StructuredCore(context)
       IN IF core.failed THEN core
          ELSE Mapped(Decorate(core.text, NullableDecorator(info.nullable),
                               DefaultDecorator(info.defaultValue)))
  ELSE Mapped(mapPgTypeToZod(type, info))

\* the mapping of each column to process, in order
ColumnTypes(info, opts, columnsToProcess) ==
  [i \in DOMAIN columnsToProcess |->
     LET column == Property(info, columnsToProcess[i])
     IN mapColumnType(column.type, column, OverrideContext(opts, columnsToProcess[i]))]

\* the assembler with override contexts, once columnInfo() has settled
generateSchemaText(settled, table, opts) ==
  IF settled.status = "rejected"
  THEN Rejected(FailedMessage(table, settled.value.message))
  ELSE LET info == settled.value
       IN IF ~Truthy(info) \/ Len(ObjectKeys(info)) = 0
          THEN Rejected(FailedMessage(table, NotFoundMessage(table)))
          ELSE LET columnsToProcess == ColumnsToProcess(info, opts)
                   types == ColumnTypes(info, opts, columnsToProcess)
                   failures == {i \in DOMAIN types : types[i].failed}
               IN IF failures # {}
                  THEN LET first == CHOOSE i \in failures : \A j \in failures : i <= j
                       IN Rejected(FailedMessage(table, types[first].text))
                  ELSE Fulfilled(SchemaCode(
                         [i \in DOMAIN types |->
                            "  " \o columnsToProcess[i] \o ": " \o types[i].text],
                         SchemaMode(opts)))

(***************************************************************************)
(* Inputs                                                                  *)
(***************************************************************************)
MaxCols == 3
MaxColumnsLen == 2
MaxExcludeLen == 1

\* the PostgreSQL type names a catalog reports
ScalarTypeNames ==
  {"character varying", "varchar", "character", "char", "text",
   "integer", "int", "int4", "smallint", "int2", "bigint", "int8", "serial", "bigserial",
   "real", "float4", "double precision", "float8", "numeric", "decimal",
   "boolean", "bool", "date",
   "timestamp", "timestamp without time zone", "timestamp with time zone", "timestamptz",
   "time", "time without time zone", "time with time zone", "timetz",
   "json", "jsonb", "uuid", "bytea",
   "point", "line", "lseg", "box", "path", "polygon", "circle",
   "cidr", "inet", "macaddr", "macaddr8", "bit", "bit varying", "varbit", "money",
   "int4range", "int8range", "numrange", "tsrange", "tstzrange", "daterange"}
ArrayTypeNames == {"text[]", "varchar[]", "integer[]", "bigint[]"}
TableTypes == ScalarTypeNames \cup ArrayTypeNames

\* tokens as a catalog or a caller may write them
OtherTokens ==
  {"VARCHAR", "Character Varying", "character varying(255)", "numeric(10,2)",
   " text ", "INTEGER[]", "uuid[]", "varchar(10)[]", "custom_enum_type",
   "weird_unknown_type!@#", "interval", "_int4", "2d", ""}
TypeTokens == TableTypes \cup OtherTokens

NullableValues == {JsUndefined, JsBool(TRUE), JsBool(FALSE)}
MaxLengthValues == {JsUndefined, JsNull, JsNum(0), JsNum(0 - 1), JsNum(255)}

TextDefaults ==
  {"'test'", "42", "true", "false", "now()", "NOW()", "Now()",
   "CURRENT_TIMESTAMP", "current_timestamp", "nextval('seq')",
   "nextval('seq'::regclass)", "NEXTVAL('seq')", "", " ", "'", "''", "-1.5", "1e3",
   "0x1F", "Infinity", "ARRAY[1,2]", "'now()'", "uuid_generate_v4()", "'a::b'",
   "'say \"hi\"'", "'a\\b'", "TRUE", "'{}'::text[]", "'test'::text", "42::integer"}
DefaultValues ==
  {JsUndefined, JsNull, JsNum(0), JsNum(7), JsBool(TRUE), JsBool(FALSE)}
  \cup {JsStr(d) : d \in TextDefaults}

Descriptors ==
  [nullable : NullableValues, maxLength : MaxLengthValues, defaultValue : DefaultValues]

\* defaults of the form L::T and L::T[]
CastLiterals == {"'test'", "42", "-1.5"}
CastTypes == ScalarTypeNames
CastDefaults ==
  {JsStr(l \o "::" \o t \o a) : l \in CastLiterals, t \in CastTypes, a \in {"", "[]"}}
CastTokens == {"varchar", "integer", "text[]"}
CastDescriptors ==
  [nullable : {JsBool(TRUE), JsBool(FALSE)}, maxLength : {JsUndefined},
   defaultValue : CastDefaults]

\* the tokens of the table as a catalog or a caller may spell them: in upper
\* case, with a length or with precision and scale, between blanks
UpperChar(c) ==
  IF c \in LowerLetters
  THEN Ch(UpperAlpha, CHOOSE i \in 1..26 : Ch(LowerAlpha, i) = c)
  ELSE c
RECURSIVE ToUpperCase(_)
ToUpperCase(s) ==
  IF s = "" THEN "" ELSE UpperChar(Head(s)) \o ToUpperCase(Tail(s))
Spellings(t) ==
  {ToUpperCase(t), t \o "(10)", t \o "(10,2)", " " \o t \o " ",
   "  " \o ToUpperCase(t) \o " (10) "}
SpelledTokens == UNION {{<<v, t>> : v \in Spellings(t)} : t \in TableTypes}
SpellingDescriptors ==
  [nullable : {JsBool(TRUE), JsBool(FALSE)}, maxLength : {JsUndefined, JsNum(255)},
   defaultValue : {JsUndefined, JsStr("'test'")}]

MapperInputs ==
  (TypeTokens \X Descriptors) \cup (CastTokens \X CastDescriptors)
  \cup ({p[1] : p \in SpelledTokens} \X SpellingDescriptors)

\* the catalog: the descriptor columnInfo() reports for each column name
ColumnNames == {"id", "name", "email", "tags"}
Catalog(name) ==
  CASE name = "id" ->
         [type |-> "integer", nullable |-> JsBool(FALSE), maxLength |-> JsNull,
          defaultValue |-> JsStr("nextval('users_id_seq'::regclass)")]
    [] name = "name" ->
         [type |-> "character varying", nullable |-> JsBool(FALSE),
          maxLength |-> JsNum(255), defaultValue |-> JsNull]
    [] name = "email" ->
         [type |-> "varchar", nullable |-> JsBool(TRUE), maxLength |-> JsNum(255),
          defaultValue |-> JsStr("'none'::text")]
    [] name = "shape" ->
         [type |-> "public.geometry", nullable |-> JsBool(FALSE),
          maxLength |-> JsNull, defaultValue |-> JsNull]
    [] name = "codes" ->
         [type |-> "varchar[]", nullable |-> JsBool(FALSE),
          maxLength |-> JsNum(10), defaultValue |-> JsNull]
    [] OTHER ->
         [type |-> "text[]", nullable |-> JsBool(TRUE), maxLength |-> JsNull,
          defaultValue |-> JsNull]

\* sequences without repetition over a set, up to a length
DistinctSeqs(S, n) ==
  {q \in UNION {[1..k -> S] : k \in 0..n} : \A i, j \in DOMAIN q : q[i] = q[j] => i = j}

\* tables with a column of a type that is no case label of the switch, and
\* tables with an array column whose descriptor has a length
WideTables ==
  {<<"shape">>, <<"id", "shape">>, <<"shape", "name">>, <<"id", "shape", "email">>,
   <<"codes">>, <<"id", "codes">>}

ColumnInfos ==
  {JsObject([i \in DOMAIN q |-> [name |-> q[i], column |-> Catalog(q[i])]]) :
     q \in DistinctSeqs(ColumnNames, MaxCols) \cup WideTables}

ProviderAnswers ==
  {Fulfilled(info) : info \in ColumnInfos \cup {JsNull, JsUndefined}}
  \cup {[status |-> "rejected", value |-> JsError(m)] :
          m \in {"connection refused", "permission denied for table users"}}

OptionNames == {"id", "email", "ghost"}
ColumnsOptions ==
  {JsUndefined} \cup {JsArray(q) : q \in DistinctSeqs(OptionNames, MaxColumnsLen)}
ExcludeOptions ==
  {JsUndefined} \cup {JsArray(q) : q \in DistinctSeqs(OptionNames, MaxExcludeLen)}
StrictOptions == {JsUndefined, JsBool(TRUE), JsBool(FALSE)}
OptionsValues == [columns : ColumnsOptions, exclude : ExcludeOptions, strict : StrictOptions]
NoOptions == [columns |-> JsUndefined, exclude |-> JsUndefined, strict |-> JsUndefined]

Clients == {"pg", "mysql", "sqlite3"}
TableNames == {"users", "t"}

(***************************************************************************)
(* The mapper as a state machine: one call of mapPgTypeToZod               *)
(***************************************************************************)
AssemblerIdle ==
  /\ client = "pg"
  /\ provider = Fulfilled(JsNull)
  /\ tableName = "users"
  /\ options = NoOptions
  /\ pc = "idle"
  /\ columnInfoCalls = 0
  /\ outcome = Pending
  /\ z = JsUndefined
  /\ clientReads = 0

MapInit ==
  /\ \E input \in MapperInputs :
       /\ pgType = input[1]
       /\ columnInfo = input[2]
  /\ zodSchema = ""
  /\ mpc = "called"
  /\ AssemblerIdle

MapReturn ==
  /\ mpc = "called"
  /\ zodSchema' = mapPgTypeToZod(pgType, columnInfo)
  /\ columnInfo' = DescriptorAfter(pgType, columnInfo)
  /\ mpc' = "returned"
  /\ UNCHANGED pgType
  /\ UNCHANGED assemblerVars

MapNext == MapReturn

MapSpec == MapInit /\ [][MapNext]_vars

(***************************************************************************)
(* createSelectSchema as a state machine: the call runs up to the await of *)
(* columnInfo(), and resumes when the provider has settled.                *)
(***************************************************************************)
MapperIdle ==
  /\ pgType = "text"
  /\ columnInfo = [nullable |-> JsUndefined, maxLength |-> JsUndefined,
                   defaultValue |-> JsUndefined]
  /\ zodSchema = ""
  /\ mpc = "idle"

\* every option value is tried against the PostgreSQL client and the table
\* users; the other clients and table names are called without options
Init ==
  /\ client \in Clients
  /\ provider \in ProviderAnswers
  /\ tableName \in TableNames
  /\ options \in OptionsValues
  /\ (client # "pg" \/ tableName # "users") => options = NoOptions
  /\ pc = "called"
  /\ columnInfoCalls = 0
  /\ outcome = Pending
  /\ z = JsUndefined
  /\ clientReads = 0
  /\ MapperIdle

\* mutant: the client check stands inside the try block, after the request
CallCheckInsideTry ==
  /\ pc = "called"
  /\ clientReads' = clientReads + 1
  /\ columnInfoCalls' = columnInfoCalls + 1
  /\ IF ~IsPostgres(client)
     THEN /\ outcome' = Rejected(FailedMessage(tableName, UnsupportedMessage))
          /\ pc' = "settled"
     ELSE /\ pc' = "awaiting"
          /\ UNCHANGED outcome
  /\ UNCHANGED <<client, provider, tableName, options, z>>
  /\ UNCHANGED mapperVars

\* entry of createSelectSchema: the client check, then the columnInfo() request
Call ==
  /\ pc = "called"
  /\ clientReads' = clientReads + 1
  /\ IF ~IsPostgres(client)
     THEN /\ outcome' = Rejected(UnsupportedMessage)
          /\ pc' = "settled"
          /\ UNCHANGED columnInfoCalls
     ELSE /\ columnInfoCalls' = columnInfoCalls + 1
          /\ pc' = "awaiting"
          /\ UNCHANGED outcome
  /\ UNCHANGED <<client, provider, tableName, options, z>>
  /\ UNCHANGED mapperVars

\* columnInfo() has settled: the rest of the try block, or the catch clause
Resume ==
  /\ pc = "awaiting"
  /\ outcome' = SchemaFromColumnInfo(provider, tableName, options)
  /\ provider' = ColumnInfoAfter(provider, options)
  /\ pc' = "settled"
  /\ UNCHANGED <<client, tableName, options, columnInfoCalls, z, clientReads>>
  /\ UNCHANGED mapperVars

Next == Call \/ Resume

Spec == Init /\ [][Next]_vars

(***************************************************************************)
(* createSelectSchema with override contexts: a table of structured        *)
(* columns, called with jsonbSchemas and jsonbPatterns                     *)
(***************************************************************************)
MaxJsonCols == 2

JsonColumnNames == {"id", "profile", "tags"}
\* the descriptors a catalog may report for each column
JsonCatalog(name) ==
  CASE name = "id" ->
         {[type |-> "integer", nullable |-> JsBool(FALSE), maxLength |-> JsNull,
           defaultValue |-> JsNull]}
    [] name = "profile" ->
         [type : {"jsonb", "JSONB"}, nullable : {JsBool(TRUE), JsBool(FALSE)},
          maxLength : {JsNull}, defaultValue : {JsNull, JsStr("'{}'::jsonb")}]
    [] OTHER ->
         [type : {"json", "text"}, nullable : {JsBool(TRUE), JsBool(FALSE)},
          maxLength : {JsNull}, defaultValue : {JsNull}]

JsonColumnInfos ==
  UNION {{JsObject([i \in DOMAIN q |-> [name |-> q[i], column |-> d[i]]]) :
            d \in {e \in [DOMAIN q -> UNION {JsonCatalog(n) : n \in JsonColumnNames}] :
                     \A i \in DOMAIN q : e[i] \in JsonCatalog(q[i])}} :
         q \in DistinctSeqs(JsonColumnNames, MaxJsonCols)}

Texts(pairs) == JsObject([i \in DOMAIN pairs |-> [name |-> pairs[i][1], column |-> JsStr(pairs[i][2])]])

JsonbSchemasOptions ==
  {JsUndefined,
   Texts(<<<<"profile", "z.string()">>>>),
   Texts(<<<<"profile", "z.object({ name: z.string(), bio: z.string().optional() })">>,
           <<"id", "z.string().uuid()">>>>),
   Texts(<<<<"tags", "z.array(z.number())">>>>)}
JsonbPatternsOptions ==
  {JsUndefined,
   Texts(<<<<"profile", "userProfile">>>>),
   Texts(<<<<"profile", "metadata">>, <<"tags", "tags">>>>),
   Texts(<<<<"profile", "address">>, <<"id", "settings">>>>),
   Texts(<<<<"tags", "nosuch">>>>),
   Texts(<<<<"profile", "UserProfile">>, <<"tags", "stringArray">>>>)}
JsonbOptionsValues ==
  [columns : {JsUndefined}, exclude : {JsUndefined, JsArray(<<"tags">>)},
   strict : {JsUndefined},
   jsonbSchemas : JsonbSchemasOptions, jsonbPatterns : JsonbPatternsOptions]

OverrideInit ==
  /\ client = "pg"
  /\ provider \in {Fulfilled(info) : info \in JsonColumnInfos}
  /\ tableName = "users"
  /\ options \in JsonbOptionsValues
  /\ pc = "called"
  /\ columnInfoCalls = 0
  /\ outcome = Pending
  /\ z = JsUndefined
  /\ clientReads = 0
  /\ MapperIdle

\* columnInfo() has settled: the columns are mapped with their override contexts
ResumeWithContext ==
  /\ pc = "awaiting"
  /\ outcome' = generateSchemaText(provider, tableName, options)
  /\ pc' = "settled"
  /\ UNCHANGED <<client, provider, tableName, options, columnInfoCalls, z, clientReads>>
  /\ UNCHANGED mapperVars

OverrideNext == Call \/ ResumeWithContext

OverrideSpec == OverrideInit /\ [][OverrideNext]_vars

(***************************************************************************)
(* Reading a schema text back: the fields of z.object({ ... }).mode()      *)
(***************************************************************************)
ObjectOpen == "z.object({\n"
StrictClose == "\n}).strict()"
PassthroughClose == "\n}).passthrough()"

IsStrictText(text) == StartsWith(text, ObjectOpen) /\ EndsWith(text, StrictClose)
IsPassthroughText(text) == StartsWith(text, ObjectOpen) /\ EndsWith(text, PassthroughClose)

\* the text between the opening line and the closing line
FieldList(text) ==
  LET close == IF EndsWith(text, StrictClose) THEN StrictClose ELSE PassthroughClose
  IN SubSeq(text, Len(ObjectOpen) + 1, Len(text) - Len(close))

RECURSIVE SplitAll(_, _)
SplitAll(s, sep) ==
  LET i == IndexOf(s, sep)
  IN IF i # 0
     THEN <<SubSeq(s, 1, i - 1)>> \o SplitAll(SubSeq(s, i + Len(sep), Len(s)), sep)
     ELSE <<s>>

FieldLines(text) ==
  LET list == FieldList(text) IN IF list = "" THEN <<>> ELSE SplitAll(list, ",\n")
FieldName(line) == SubSeq(line, 3, IndexOf(line, ": ") - 1)
FieldNames(text) ==
  LET lines == FieldLines(text) IN [i \in DOMAIN lines |-> FieldName(lines[i])]
Range(q) == {q[i] : i \in DOMAIN q}

Returned == pc = "settled" /\ outcome.status = "fulfilled"
\* the descriptor mapping and the option lists of the call that returned
Info == provider.value
Keys == ObjectKeys(Info)
ColumnsGiven == options.columns.kind = "array"
ColumnsList == IF ColumnsGiven THEN options.columns.items ELSE <<>>
ExcludeList == IF options.exclude.kind = "array" THEN options.exclude.items ELSE <<>>

\* the rearrangements of a list
Rearrangements(q) ==
  {[i \in DOMAIN q |-> q[f[i]]] :
     f \in {g \in [DOMAIN q -> DOMAIN q] : \A i, j \in DOMAIN q : g[i] = g[j] => i = j}}

(***************************************************************************)
(* createSelectSchemaObject as a state machine                             *)
(***************************************************************************)
AllConstructors ==
  {"object", "string", "number", "boolean", "unknown", "instanceof", "array"}
ZodValues ==
  {JsNull, JsUndefined, JsStr("zod"), JsRuntime({}),
   JsRuntime(AllConstructors \ {"object"}), JsRuntime(AllConstructors),
   JsRuntime(AllConstructors \ {"array"}), JsRuntime({"object", "number"})}
ObjectOptions ==
  {NoOptions, [NoOptions EXCEPT !.strict = JsBool(FALSE)],
   [NoOptions EXCEPT !.exclude = JsArray(<<"id">>)]}

ObjectInit ==
  /\ client \in Clients
  /\ provider \in ProviderAnswers
  /\ tableName = "users"
  /\ options \in ObjectOptions
  /\ z \in ZodValues
  /\ pc = "called"
  /\ columnInfoCalls = 0
  /\ outcome = Pending
  /\ clientReads = 0
  /\ MapperIdle

\* entry of createSelectSchemaObject: the test of z, then createSelectSchema
\* up to its await
ObjectCall ==
  /\ pc = "called"
  /\ IF ~ValidRuntime(z)
     THEN /\ outcome' = Rejected(InvalidZodMessage)
          /\ pc' = "settled"
          /\ UNCHANGED <<clientReads, columnInfoCalls>>
     ELSE /\ clientReads' = clientReads + 1
          /\ IF ~IsPostgres(client)
             THEN /\ outcome' = Rejected(UnsupportedMessage)
                  /\ pc' = "settled"
                  /\ UNCHANGED columnInfoCalls
             ELSE /\ columnInfoCalls' = columnInfoCalls + 1
                  /\ pc' = "awaiting"
                  /\ UNCHANGED outcome
  /\ UNCHANGED <<client, provider, tableName, options, z>>
  /\ UNCHANGED mapperVars

\* columnInfo() has settled: createSelectSchema returns or throws, and the
\* returned text is evaluated
ObjectResume ==
  /\ pc = "awaiting"
  /\ LET schemaCode == SchemaFromColumnInfo(provider, tableName, options)
     IN outcome' = IF schemaCode.status = "rejected"
                   THEN schemaCode
                   ELSE EvaluateSchema(schemaCode.value, z)
  /\ provider' = ColumnInfoAfter(provider, options)
  /\ pc' = "settled"
  /\ UNCHANGED <<client, tableName, options, columnInfoCalls, z, clientReads>>
  /\ UNCHANGED mapperVars

ObjectNext == ObjectCall \/ ObjectResume

ObjectSpec == ObjectInit /\ [][ObjectNext]_vars

(***************************************************************************)
(* The library: a call of mapPgTypeToZod, of createSelectSchema or of      *)
(* createSelectSchemaObject, and after it another call with the same       *)
(* argument objects                                                        *)
(***************************************************************************)
LibraryInit == MapInit \/ Init \/ ObjectInit

\* the caller calls again, passing the objects it passed before and still
\* holding the result of the call before
CallAgain ==
  \/ /\ mpc = "returned"
     /\ mpc' = "called"
     /\ UNCHANGED <<pgType, columnInfo, zodSchema>>
     /\ UNCHANGED assemblerVars
  \/ /\ pc = "settled"
     /\ pc' = "called"
     /\ columnInfoCalls' = 0
     /\ clientReads' = 0
     /\ UNCHANGED <<client, provider, tableName, options, z, outcome>>
     /\ UNCHANGED mapperVars

\* a call without Zod instance is a call of createSelectSchema, a call with
\* one is a call of createSelectSchemaObject, whose continuation exists for a
\* valid instance only
LibraryNext ==
  \/ MapReturn
  \/ z = JsUndefined /\ Call
  \/ z = JsUndefined /\ Resume
  \/ z # JsUndefined /\ ObjectCall
  \/ ValidRuntime(z) /\ ObjectResume
  \/ CallAgain

LibrarySpec == LibraryInit /\ [][LibraryNext]_vars

(***************************************************************************)
(* Claims about createSelectSchema (specification Spec)                    *)
(***************************************************************************)

\* C1: the fields of the returned text are in the descriptor mapping's own key
\* order, restricted to the columns that appear, and rearranging the names
\* inside options.columns gives the same text.
C1_OrderFollowsMetadata ==
  Returned =>
    /\ LET names == FieldNames(outcome.value)
           shown(name) == name \in Range(names)
       IN names = SelectSeq(Keys, shown)
    /\ ColumnsGiven =>
         \A q \in Rearrangements(ColumnsList) :
           SchemaFromColumnInfo(provider, tableName,
                                [options EXCEPT !.columns = JsArray(q)]) = outcome

\* C1 witness: the allow-list names email before id, the mapping has id before
\* email, and the text has id before email.
C1_Witness ==
  /\ Returned
  /\ ColumnsList = <<"email", "id">>
  /\ ExcludeList = <<>>
  /\ \E i, j \in DOMAIN Keys : i < j /\ Keys[i] = "id" /\ Keys[j] = "email"
  /\ FieldNames(outcome.value) = <<"id", "email">>

\* C2: no column named in options.exclude is a field of the returned schema,
\* also when options.columns names it too.
C2_DenyListWins ==
  Returned => \A name \in Range(ExcludeList) : name \notin Range(FieldNames(outcome.value))

\* C2 witness: id is a column, is allowed and denied, and is not a field while
\* another column is.
C2_Witness ==
  /\ Returned
  /\ "id" \in Range(Keys)
  /\ "id" \in Range(ColumnsList)
  /\ "id" \in Range(ExcludeList)
  /\ "id" \notin Range(FieldNames(outcome.value))
  /\ FieldNames(outcome.value) = <<"email">>

\* the provider answered with a mapping that has columns, and the call is over
AnsweredWithColumns ==
  /\ pc = "settled"
  /\ columnInfoCalls > 0
  /\ provider.status = "fulfilled"
  /\ Info.kind = "object"
  /\ Len(Keys) > 0

\* the text has one "  name: expression" line for each column of S, nothing else
ExactlyTheFields(S) ==
  /\ outcome.status = "fulfilled"
  /\ IsStrictText(outcome.value) \/ IsPassthroughText(outcome.value)
  /\ LET lines == FieldLines(outcome.value)
         names == [i \in DOMAIN lines |-> FieldName(lines[i])]
     IN /\ Len(lines) = Cardinality(S)
        /\ Range(names) = S
        /\ \A i \in DOMAIN lines :
             LET column == Property(Info, names[i])
             IN lines[i] = "  " \o names[i] \o ": " \o mapPgTypeToZod(column.type, column)
  /\ S = {} => FieldList(outcome.value) = ""

\* C3 as stated: a column is included when it passes the allow-list (every
\* column passes when options.columns is absent, the listed ones when it is
\* supplied) and is not in the deny-list; the schema has exactly one field for
\* each included column, and an empty object when there is none.
C3_IncludedAsStated ==
  {name \in Range(Keys) :
     /\ ColumnsGiven => name \in Range(ColumnsList)
     /\ name \notin Range(ExcludeList)}
C3_ExactlyIncluded_Original == AnsweredWithColumns => ExactlyTheFields(C3_IncludedAsStated)

\* C3 amended: the same with an empty options.columns counting as no
\* allow-list, so that every column passes it.
C3_IncludedAmended ==
  {name \in Range(Keys) :
     /\ (ColumnsGiven /\ ColumnsList # <<>>) => name \in Range(ColumnsList)
     /\ name \notin Range(ExcludeList)}
C3_ExactlyIncluded == AnsweredWithColumns => ExactlyTheFields(C3_IncludedAmended)

\* C3 witness: the allow-list names no column of the mapping, filtering leaves
\* nothing, and the empty object schema is returned.
C3_Witness ==
  /\ AnsweredWithColumns
  /\ Len(Keys) = 2
  /\ ColumnsList = <<"ghost">>
  /\ C3_IncludedAmended = {}
  /\ outcome = Fulfilled("z.object({\n\n}).strict()")

\* C4 as stated: whenever options.columns is supplied, the empty list included,
\* every field of the returned schema is a member of options.columns.
C4_OnlyListed_Original ==
  (Returned /\ ColumnsGiven) =>
    Range(FieldNames(outcome.value)) \subseteq Range(ColumnsList)

\* C4 amended: whenever a non-empty options.columns is supplied every field is a
\* member of it; an empty list filters nothing, the fields are then the
\* columns of the mapping that are not in options.exclude.
C4_OnlyListed ==
  (Returned /\ ColumnsGiven) =>
    IF ColumnsList # <<>>
    THEN Range(FieldNames(outcome.value)) \subseteq Range(ColumnsList)
    ELSE Range(FieldNames(outcome.value)) = Range(Keys) \ Range(ExcludeList)

\* C4 witness: the mapping has three columns, the allow-list names one of them,
\* and that one is the only field.
C4_Witness ==
  /\ Returned
  /\ Len(Keys) = 3
  /\ ColumnsList = <<"email">>
  /\ FieldNames(outcome.value) = <<"email">>

\* C5: the object is closed with }).strict() when options.strict is absent or
\* true and with }).passthrough() when it is false, and the text for the other
\* value of options.strict has the same field list.
C5_ModeFollowsStrict ==
  Returned =>
    /\ options.strict \in {JsUndefined, JsBool(TRUE)} => IsStrictText(outcome.value)
    /\ options.strict = JsBool(FALSE) => IsPassthroughText(outcome.value)
    /\ \A other \in StrictOptions :
         LET text == SchemaFromColumnInfo(provider, tableName,
                                          [options EXCEPT !.strict = other]).value
         IN /\ FieldList(text) = FieldList(outcome.value)
            /\ IsStrictText(text) # IsPassthroughText(text)

\* C5 witness: a call with strict false returned an open object with two fields.
C5_Witness ==
  /\ Returned
  /\ options.strict = JsBool(FALSE)
  /\ Len(FieldNames(outcome.value)) = 2
  /\ EndsWith(outcome.value, "}).passthrough()")
  /\ ~Includes(outcome.value, "strict")

(***************************************************************************)
(* Claims about mapPgTypeToZod (specification MapSpec)                     *)
(***************************************************************************)
MapReturned == mpc = "returned"

\* the expression without its trailing default decorator
WithoutDefault(text) ==
  IF EndsWith(text, ")") /\ Includes(text, ".default(")
  THEN SubSeq(text, 1, LastIndexOf(text, ".default(") - 1)
  ELSE text
HasDefaultDecorator(text) == WithoutDefault(text) # text
HasNullableDecorator(text) == EndsWith(WithoutDefault(text), ".nullable()")

\* the documented mapping table: type tokens and their expression
DocumentedTable ==
  {<<{"varchar", "character varying", "char", "character", "text"}, "z.string()">>,
   <<{"integer", "int", "int4", "smallint", "int2", "bigint", "int8", "serial",
      "bigserial"}, "z.number().int()">>,
   <<{"real", "float4", "double precision", "float8", "numeric", "decimal"},
     "z.number()">>,
   <<{"boolean", "bool"}, "z.boolean()">>,
   <<{"date"}, "z.string().date()">>,
   <<{"timestamp", "timestamptz", "timestamp without time zone",
      "timestamp with time zone"}, "z.string().datetime()">>,
   <<{"time", "timetz", "time without time zone", "time with time zone"},
     "z.string().time()">>,
   <<{"json", "jsonb"}, "z.unknown()">>,
   <<{"uuid"}, "z.string().uuid()">>,
   <<{"bytea"}, "z.instanceof(Buffer)">>,
   <<{"point", "line", "lseg", "box", "path", "polygon", "circle",
      "cidr", "inet", "macaddr", "macaddr8", "bit", "bit varying", "varbit",
      "money", "int4range", "int8range", "numrange", "tsrange", "tstzrange",
      "daterange"}, "z.string()">>}

\* a non-nullable descriptor with no maxLength and no default
PlainDescriptor ==
  /\ columnInfo.nullable \in {JsUndefined, JsBool(FALSE)}
  /\ columnInfo.maxLength \in {JsUndefined, JsNull}
  /\ columnInfo.defaultValue \in {JsUndefined, JsNull}

\* C6: for every token of the documented mapping table, a non-nullable
\* descriptor without maxLength and default gives exactly the documented
\* expression.
C6_DocumentedMapping ==
  (MapReturned /\ PlainDescriptor) =>
    \A row \in DocumentedTable : pgType \in row[1] => zodSchema = row[2]

\* C6 witness: the token bigserial has been mapped with a plain descriptor.
C6_Witness ==
  /\ MapReturned
  /\ PlainDescriptor
  /\ pgType = "bigserial"
  /\ zodSchema = "z.number().int()"

\* C7: the expression has the nullable decorator exactly when the descriptor's
\* nullable flag is true; an absent flag gives none.
C7_NullableIffFlag ==
  MapReturned => (HasNullableDecorator(zodSchema) <=> columnInfo.nullable = JsBool(TRUE))

\* C7 witness: a descriptor without nullable field, with a default, has been
\* mapped to an expression without nullable decorator.
C7_Witness ==
  /\ MapReturned
  /\ columnInfo.nullable = JsUndefined
  /\ columnInfo.defaultValue = JsStr("'test'")
  /\ pgType = "varchar"
  /\ zodSchema = "z.string().default(\"test\")"

\* the default of the descriptor is present and not skipped
DefaultEmitted == DefaultDecorator(columnInfo.defaultValue) # ""

\* C8: for a nullable column whose default is not skipped, the text ends with
\* the default decorator and the nullable decorator comes right before it.
C8_NullableBeforeDefault ==
  (MapReturned /\ columnInfo.nullable = JsBool(TRUE) /\ DefaultEmitted) =>
    LET i == LastIndexOf(zodSchema, ".default(")
    IN /\ i > 0
       /\ EndsWith(zodSchema, ")")
       /\ EndsWith(SubSeq(zodSchema, 1, i - 1), ".nullable()")
       /\ IndexOf(zodSchema, ".nullable()") < i

\* C8 witness: a nullable integer column with default 42::integer.
C8_Witness ==
  /\ MapReturned
  /\ columnInfo.nullable = JsBool(TRUE)
  /\ columnInfo.defaultValue = JsStr("42::integer")
  /\ pgType = "integer"
  /\ zodSchema = "z.number().int().nullable().default(42)"

\* a current-timestamp form in any letter case, or a call of nextval
IsServerComputed(text) ==
  \/ ToLowerCase(text) \in {"now()", "current_timestamp"}
  \/ StartsWith(text, "nextval(") /\ EndsWith(text, ")")

\* C9: a default that is a current-timestamp form in any letter case, or a
\* call of nextval, never produces a default decorator, for every type token
\* and both values of nullable.
C9_ServerDefaultsSkipped ==
  (/\ MapReturned
   /\ columnInfo.defaultValue.kind = "string"
   /\ IsServerComputed(columnInfo.defaultValue.str))
    => ~Includes(zodSchema, ".default(")

\* C10: a default L::T, with L a quoted or numeric literal and T a type name of
\* the type table, one word or several, with or without [], gives the same
\* expression as the default L alone.
C10_CastLeavesNoTrace ==
  MapReturned =>
    \A l \in CastLiterals, t \in CastTypes, a \in {"", "[]"} :
      columnInfo.defaultValue = JsStr(l \o "::" \o t \o a) =>
        zodSchema = mapPgTypeToZod(pgType, [columnInfo EXCEPT !.defaultValue = JsStr(l)])


\* the expression without its trailing default and nullable decorators
WithoutNullable(text) ==
  IF EndsWith(text, ".nullable()") THEN SubSeq(text, 1, Len(text) - Len(".nullable()")) ELSE text
BaseValidator(text) == WithoutNullable(WithoutDefault(text))

\* letters, digits and underscores, the first of them not a digit
IdentifierShape(t) ==
  /\ Len(t) > 0
  /\ \A i \in 1..Len(t) : Ch(t, i) \in LowerLetters \cup UpperLetters \cup Digits \cup {"_"}
  /\ Ch(t, 1) \notin Digits

\* C11: a token that, once normalized, is no entry of the lookup table maps to
\* z.string() when it has the shape of a bare identifier and to z.unknown()
\* otherwise, whatever the descriptor.
C11_DefaultRule ==
  (MapReturned /\ NormalizeType(pgType) \notin TableTypes) =>
    BaseValidator(zodSchema)
      = IF IdentifierShape(NormalizeType(pgType)) THEN "z.string()" ELSE "z.unknown()"

\* C11 witness: a token of letters and digits that starts with a digit is
\* mapped to z.unknown(), with the decorators of its descriptor.
C11_Witness ==
  /\ MapReturned
  /\ pgType = "2d"
  /\ columnInfo.nullable = JsBool(TRUE)
  /\ columnInfo.maxLength = JsNum(255)
  /\ columnInfo.defaultValue = JsStr("42")
  /\ zodSchema = "z.unknown().nullable().default(42)"


(***************************************************************************)
(* Claims about structured-document columns (specification OverrideSpec)   *)
(***************************************************************************)
FieldExpression(line) == SubSeq(line, IndexOf(line, ": ") + 2, Len(line))
\* the expression of the field called name in the returned text
ExpressionOf(name) ==
  LET lines == FieldLines(outcome.value)
      i == CHOOSE k \in DOMAIN lines : FieldName(lines[k]) = name
  IN FieldExpression(lines[i])
\* the columns of the answer that became fields
Processed == {name \in Range(Keys) : name \notin Range(ExcludeList)}
IsStructured(name) == ToLowerCase(Property(Info, name).type) \in {"json", "jsonb"}
OverrideOf(name) == Lookup(options.jsonbSchemas, name)
PatternOf(name) == Lookup(options.jsonbPatterns, name)
IsNullableColumn(name) == Property(Info, name).nullable = JsBool(TRUE)
\* what follows the core: nothing, .nullable(), .default(..) or both in that order
IsDefaultCall(rest) == StartsWith(rest, ".default(") /\ EndsWith(rest, ")")
DecoratorsOf(name, rest) ==
  LET afterNullable ==
        IF StartsWith(rest, ".nullable()")
        THEN SubSeq(rest, Len(".nullable()") + 1, Len(rest)) ELSE rest
  IN /\ StartsWith(rest, ".nullable()") <=> IsNullableColumn(name)
     /\ afterNullable = "" \/ IsDefaultCall(afterNullable)
     /\ afterNullable = "" <=> Property(Info, name).defaultValue = JsNull
CoreThenDecorators(name, core) ==
  LET expression == ExpressionOf(name)
  IN /\ StartsWith(expression, core)
     /\ DecoratorsOf(name, SubSeq(expression, Len(core) + 1, Len(expression)))

C13_WitnessOpaque ==
  /\ Returned
  /\ "tags" \in Processed
  /\ Property(Info, "tags").type = "json"
  /\ OverrideOf("tags") = JsUndefined /\ PatternOf("tags") = JsUndefined
  /\ ExpressionOf("tags") = "z.unknown().nullable()"

\* a processed json or jsonb column without override names a pattern the
\* library does not have
UnknownPatternNamed ==
  \E name \in Processed :
    /\ IsStructured(name)
    /\ OverrideOf(name).kind = "undefined"
    /\ PatternOf(name).kind = "string"
    /\ PatternOf(name).str \notin PatternNames

AnsweredWithoutColumns ==
  /\ pc = "settled"
  /\ columnInfoCalls > 0
  /\ provider.status = "fulfilled"
  /\ \/ provider.value \in {JsNull, JsUndefined}
     \/ provider.value.kind = "object" /\ provider.value.entries = <<>>

\* C15: when the provider answers with an empty mapping, null or undefined,
\* the call is rejected, and the message contains
\* Table "<tableName>" not found or has no columns with the requested name.
C15_NotFoundRejected ==
  AnsweredWithoutColumns =>
    /\ outcome.status = "rejected"
    /\ Includes(outcome.value, "Table \"" \o tableName \o "\" not found or has no columns")

\* C15 witness: the table t has an empty mapping and the rejection names t.
C15_Witness ==
  /\ AnsweredWithoutColumns
  /\ provider.value = JsObject(<<>>)
  /\ tableName = "t"
  /\ outcome = Rejected("Failed to create schema for table \"t\": Table \"t\" not found or has no columns")

\* the knex clients that are no PostgreSQL client
OtherEngines == {"mysql", "sqlite3"}

\* C16: with a client that is not PostgreSQL columnInfo() is never requested,
\* and the call settles rejected with exactly the message
\* createSelectSchema currently only supports PostgreSQL.
C16_UnsupportedBeforeFetch ==
  client \in OtherEngines =>
    /\ columnInfoCalls = 0
    /\ pc # "awaiting"
    /\ pc = "settled" =>
         outcome = Rejected("createSelectSchema currently only supports PostgreSQL")

\* C16 witness: a call with the sqlite3 client has settled, rejected, although
\* the provider would have answered with columns.
C16_Witness ==
  /\ client = "sqlite3"
  /\ pc = "settled"
  /\ provider.status = "fulfilled"
  /\ provider.value.kind = "object"
  /\ Len(provider.value.entries) = 2
  /\ outcome.status = "rejected"
  /\ columnInfoCalls = 0


(***************************************************************************)
(* Claims about createSelectSchemaObject (specification ObjectSpec)        *)
(***************************************************************************)
\* z is null or undefined, or z.object is no function
NoZodInstance ==
  \/ z \in {JsNull, JsUndefined}
  \/ z.kind # "runtime"
  \/ z.kind = "runtime" /\ "object" \notin z.constructors

\* C17: with a runtime that is null or has no object function, knex.client is
\* never read, columnInfo() is never requested, and the call settles rejected
\* with exactly Valid Zod instance must be provided as third parameter.
C17_RuntimeCheckedFirst ==
  NoZodInstance =>
    /\ clientReads = 0
    /\ columnInfoCalls = 0
    /\ pc # "awaiting"
    /\ pc = "settled" =>
         /\ outcome.status = "rejected"
         /\ outcome.value = "Valid Zod instance must be provided as third parameter"

\* C17 witness: the instance has constructors, but no object; the client is no
\* PostgreSQL client, and the rejection is the one about the instance.
C17_Witness ==
  /\ z = JsRuntime(AllConstructors \ {"object"})
  /\ client = "mysql"
  /\ pc = "settled"
  /\ outcome = Rejected("Valid Zod instance must be provided as third parameter")
  /\ clientReads = 0


(***************************************************************************)
(* Further claims about mapPgTypeToZod (specification MapSpec)             *)
(***************************************************************************)
\* how many times pattern occurs in text
RECURSIVE CountOccurrences(_, _, _)
CountOccurrences(text, pattern, from) ==
  LET i == IndexFrom(text, pattern, from)
  IN IF i = 0 THEN 0 ELSE 1 + CountOccurrences(text, pattern, i + Len(pattern))
DefaultDecorators(text) == CountOccurrences(text, ".default(", 1)

\* the default is written with a current-timestamp form or a nextval call
ServerComputedForm(defaultValue) ==
  LET text == ToLowerCase(ToStr(defaultValue))
  IN \/ Includes(text, "now()")
     \/ Includes(text, "current_timestamp")
     \/ Includes(text, "nextval(")

\* C19: an absent or null defaultValue gives an expression without default
\* decorator, for every type token; every other defaultValue that is not a
\* server-computed form gives an expression with exactly one.
C19_DefaultExactlyOnce ==
  MapReturned =>
    /\ columnInfo.defaultValue \in {JsUndefined, JsNull} => DefaultDecorators(zodSchema) = 0
    /\ (columnInfo.defaultValue \notin {JsUndefined, JsNull}
          /\ ~ServerComputedForm(columnInfo.defaultValue)) =>
         DefaultDecorators(zodSchema) = 1

\* the part of C19 that the code satisfies: the tokens that are no array type
C19_ExactlyOnceForScalars ==
  (MapReturned /\ NormalizeType(pgType) \notin ArrayTypeNames) => C19_DefaultExactlyOnce


\* C20: a token of the lookup table written in upper case, followed by (n) or
\* (p,s), or between blanks gives the expression the token itself gives with
\* the same descriptor; the length written in the suffix bounds no string.
C20_SpellingInsensitive ==
  MapReturned =>
    \A p \in SpelledTokens :
      p[1] = pgType =>
        /\ zodSchema = mapPgTypeToZod(p[2], columnInfo)
        /\ ~Includes(zodSchema, ".max(10)")
        /\ Includes(zodSchema, ".max(") => columnInfo.maxLength = JsNum(255)

\* C20 witness: CHARACTER VARYING (10) between blanks, without maxLength in
\* the descriptor, is an unbounded string.
C20_Witness ==
  /\ MapReturned
  /\ pgType = "  CHARACTER VARYING (10) "
  /\ columnInfo.maxLength = JsUndefined
  /\ columnInfo.nullable = JsBool(TRUE)
  /\ columnInfo.defaultValue = JsStr("'test'")
  /\ zodSchema = "z.string().nullable().default(\"test\")"

\* with a maxLength in the descriptor, NUMERIC(10,2) stays unbounded and
\* VARCHAR(10) is bounded by the descriptor's 255
C20_WitnessBounded ==
  /\ MapReturned
  /\ pgType = "varchar(10)"
  /\ columnInfo.maxLength = JsNum(255)
  /\ zodSchema = "z.string().max(255).nullable()"


\* the string types that carry a length
BoundedStringTypes == {"varchar", "character varying", "char", "character"}
PositiveLength(maxLength) == maxLength.kind = "number" /\ maxLength.num > 0

\* C21: for varchar, character varying, char and character a positive
\* maxLength n gives z.string().max(n) and any other maxLength z.string();
\* for every other type, text included, the expression is the one the same
\* descriptor without maxLength gives.
C21_MaxLengthBoundedOnly ==
  MapReturned =>
    IF NormalizeType(pgType) \in BoundedStringTypes
    THEN BaseValidator(zodSchema)
           = IF PositiveLength(columnInfo.maxLength)
             THEN "z.string().max(" \o NatToString(columnInfo.maxLength.num) \o ")"
             ELSE "z.string()"
    ELSE zodSchema = mapPgTypeToZod(pgType, [columnInfo EXCEPT !.maxLength = JsUndefined])

\* the part of C21 that the code satisfies: every type but text
C21_ExceptText ==
  (MapReturned /\ NormalizeType(pgType) # "text") => C21_MaxLengthBoundedOnly


\* the token without its array-suffix marker
ElementToken(token) == SubSeq(token, 1, Len(token) - 2)

\* C22: a token that ends in [] is mapped to z.array(E), E being the
\* expression of the element type under the same descriptor with maxLength
\* cleared, whatever the element type.
C22_ArrayOfElement ==
  (MapReturned /\ EndsWith(pgType, "[]")) =>
    BaseValidator(zodSchema)
      = "z.array("
          \o mapPgTypeToZod(ElementToken(pgType), [columnInfo EXCEPT !.maxLength = JsNull])
          \o ")"

\* the part of C22 that the code satisfies: the four array case labels
C22_RecognizedArrays ==
  (MapReturned /\ ToLowerCase(pgType) \in {"text[]", "varchar[]", "integer[]", "bigint[]"})
    => C22_ArrayOfElement

\* tokens that end in [] and are no case label: mapped without z.array
C22_OtherArrays ==
  (MapReturned /\ EndsWith(pgType, "[]")
     /\ ToLowerCase(pgType) \notin {"text[]", "varchar[]", "integer[]", "bigint[]"})
    => ~StartsWith(zodSchema, "z.array(")


\* the argument of the trailing default decorator, "" when there is none
TrailingDefaultArgument(text) ==
  LET i == LastIndexOf(text, ".default(")
  IN IF i = 0 \/ ~EndsWith(text, ")") THEN ""
     ELSE SubSeq(text, i + Len(".default("), Len(text) - 1)

\* the index of the first double quote of s at or after i that no backslash
\* escapes, 0 when there is none
RECURSIVE ClosingQuote(_, _)
ClosingQuote(s, i) ==
  IF i > Len(s) THEN 0
  ELSE IF Ch(s, i) = "\\" THEN ClosingQuote(s, i + 2)
  ELSE IF Ch(s, i) = "\"" THEN i
  ELSE ClosingQuote(s, i + 1)

\* arg is one JavaScript string literal in double quotes
IsStringLiteral(arg) ==
  /\ Len(arg) >= 2
  /\ Ch(arg, 1) = "\""
  /\ ClosingQuote(arg, 2) = Len(arg)

\* the text a string-literal body denotes; an escape other than \\ \" \' is
\* written <e>, for it denotes a character that is not the one after the
\* backslash
RECURSIVE Denoted(_)
Denoted(body) ==
  IF body = "" THEN ""
  ELSE IF Head(body) = "\\"
  THEN IF Len(body) = 1 THEN "<e>"
       ELSE (IF Ch(body, 2) \in {"\\", "\"", "'"} THEN Ch(body, 2) ELSE "<e>")
              \o Denoted(SubSeq(body, 3, Len(body)))
  ELSE Head(body) \o Denoted(Tail(body))

\* the default is a text between two single quotes
QuotedDefault ==
  /\ columnInfo.defaultValue.kind = "string"
  /\ Len(columnInfo.defaultValue.str) >= 2
  /\ StartsWith(columnInfo.defaultValue.str, "'")
  /\ EndsWith(columnInfo.defaultValue.str, "'")
InnerText == SubSeq(columnInfo.defaultValue.str, 2, Len(columnInfo.defaultValue.str) - 1)

\* C23: for a default between single quotes the trailing default decorator
\* carries one well-formed string literal, and the literal denotes the text
\* between the quotes, character for character.
C23_QuotedDefaultVerbatim ==
  (MapReturned /\ QuotedDefault) =>
    LET arg == TrailingDefaultArgument(zodSchema)
    IN /\ IsStringLiteral(arg)
       /\ Denoted(SubSeq(arg, 2, Len(arg) - 1)) = InnerText

\* the part of C23 that the code satisfies: inner texts without ::, double
\* quote and backslash
C23_PlainInnerText ==
  (MapReturned /\ QuotedDefault
     /\ ~Includes(InnerText, "::") /\ ~Includes(InnerText, "\"") /\ ~Includes(InnerText, "\\"))
    => C23_QuotedDefaultVerbatim


\* the default as text, without its casts
StrippedDefault == StripCasts(ToStr(columnInfo.defaultValue))
\* a default that is given, is not between single quotes and is no
\* server-computed form
UnquotedDefault ==
  /\ columnInfo.defaultValue \notin {JsUndefined, JsNull}
  /\ ~(StartsWith(StrippedDefault, "'") /\ EndsWith(StrippedDefault, "'"))
  /\ ~ServerComputedForm(columnInfo.defaultValue)
\* the text is a number for Number(), and not blank
NumericLiteral(text) == Trim(text) # "" /\ ~IsNaN(text)
IsDefaultCase(number, boolean, string) ==
  LET d == StrippedDefault
  IN /\ number <=> EndsWith(zodSchema, ".default(" \o d \o ")") /\ NumericLiteral(d)
     /\ boolean <=> EndsWith(zodSchema, ".default(" \o d \o ")") /\ d \in {"true", "false"}
     /\ string <=> EndsWith(zodSchema, ".default(\"" \o d \o "\")")

\* C24: an unquoted default that is a numeric literal is emitted unquoted, one
\* that is exactly true or false is emitted unquoted, and any other one that
\* is not skipped is emitted between double quotes, whole; exactly one of the
\* three is the case.
C24_UnquotedDefaultKinds ==
  (MapReturned /\ UnquotedDefault) =>
    IF NumericLiteral(StrippedDefault) THEN IsDefaultCase(TRUE, FALSE, FALSE)
    ELSE IF StrippedDefault \in {"true", "false"} THEN IsDefaultCase(FALSE, TRUE, FALSE)
    ELSE IsDefaultCase(FALSE, FALSE, TRUE)

\* the part of C24 that the code satisfies: defaults that are not blank
C24_ExceptBlank ==
  (MapReturned /\ UnquotedDefault /\ (StrippedDefault = "" \/ Trim(StrippedDefault) # ""))
    => C24_UnquotedDefaultKinds


(***************************************************************************)
(* Further claims about createSelectSchema (specification Spec)            *)
(***************************************************************************)
\* C25: columnInfo() is requested at most once in a call, and when the
\* request rejects the call is rejected with a message that names the table
\* and carries the provider's message, and no schema text.
C25_FetchOnceNoRetry ==
  /\ columnInfoCalls <= 1
  /\ (pc = "settled" /\ columnInfoCalls > 0 /\ provider.status = "rejected") =>
       /\ columnInfoCalls = 1
       /\ outcome.status = "rejected"
       /\ Includes(outcome.value, "\"" \o tableName \o "\"")
       /\ Includes(outcome.value, provider.value.message)
       /\ ~Includes(outcome.value, "z.")

\* C25 witness: the request for table t was refused, once, and the rejection
\* says so.
C25_Witness ==
  /\ pc = "settled"
  /\ tableName = "t"
  /\ provider = [status |-> "rejected", value |-> JsError("connection refused")]
  /\ columnInfoCalls = 1
  /\ outcome = Rejected("Failed to create schema for table \"t\": connection refused")


(***************************************************************************)
(* Claims about the library as a whole (specification LibrarySpec)         *)
(***************************************************************************)
\* the base validators of the mapper
FixedVocabulary ==
  {"z.string()", "z.number().int()", "z.number()", "z.boolean()", "z.string().date()",
   "z.string().datetime()", "z.string().time()", "z.string().uuid()", "z.unknown()",
   "z.instanceof(Buffer)"}
IsBoundedString(text) ==
  /\ StartsWith(text, "z.string().max(")
  /\ EndsWith(text, ")")
  /\ Len(text) > Len("z.string().max()")
  /\ AllIn(SubSeq(text, Len("z.string().max(") + 1, Len(text) - 1), Digits)
IsArrayOf(text) == StartsWith(text, "z.array(") /\ EndsWith(text, ")")
InVocabulary(text) == text \in FixedVocabulary \/ IsBoundedString(text) \/ IsArrayOf(text)

\* the provider answered with a table that has the column shape, whose type
\* public.geometry is no case label, and shape is not filtered out; the call
\* is one of createSelectSchema, which is passed no Zod instance
WideTableProcessed ==
  /\ AnsweredWithColumns
  /\ z = JsUndefined
  /\ "shape" \in Range(Keys)
  /\ "shape" \notin Range(ExcludeList)
  /\ Len(ColumnsList) > 0 => "shape" \in Range(ColumnsList)

\* C26: every call of mapPgTypeToZod returns an expression whose base
\* validator is of the fixed vocabulary, and a createSelectSchema call over a
\* table with a column of unrecognized type returns a schema, with a field of
\* the vocabulary for that column.
C26_TotalAndClosed ==
  /\ MapReturned => InVocabulary(BaseValidator(zodSchema))
  /\ WideTableProcessed =>
       /\ outcome.status = "fulfilled"
       /\ \E i \in DOMAIN FieldLines(outcome.value) :
            FieldLines(outcome.value)[i] \in {"  shape: z.unknown()", "  shape: z.string()"}

\* C26 witness: the table has id, shape and email, and the schema has the
\* three fields, shape as z.unknown().
C26_Witness ==
  /\ WideTableProcessed
  /\ Keys = <<"id", "shape", "email">>
  /\ ColumnsList = <<>> /\ ExcludeList = <<>>
  /\ outcome.status = "fulfilled"
  /\ FieldNames(outcome.value) = <<"id", "shape", "email">>
  /\ FieldLines(outcome.value)[2] = "  shape: z.unknown()"

(***************************************************************************)
(* Claims about the value createSelectSchemaObject returns (specification  *)
(* ObjectSpec)                                                             *)
(***************************************************************************)
\* the functions of the instance that the text calls
UsedConstructors(text) ==
  {n \in AllConstructors :
     \E i \in 1..Len(text) : OccursAt(text, "z." \o n \o "(", i)}

\* the call settled with the schema value of a text, built by the instance z
ObjectReturned ==
  /\ pc = "settled"
  /\ outcome.status = "fulfilled"
  /\ outcome.object.kind = "schema"
  /\ outcome.object.runtime = z

\* the call settled with the report of an evaluation that failed because the
\* instance has no function of the name the text calls
EvaluationFailed ==
  /\ pc = "settled"
  /\ outcome.status = "rejected"
  /\ ValidRuntime(z)
  /\ \E n \in AllConstructors \ z.constructors :
       outcome.value = "Failed to create Zod schema object: z." \o n \o " is not a function"

\* C27: for a valid instance z, createSelectSchemaObject returns the value of
\* the text of createSelectSchema evaluated against z: closed or open as
\* options.strict says, with the fields of the text.  A failure of
\* createSelectSchema is the failure of the call, unchanged, and a failure of
\* the evaluation is reported as Failed to create Zod schema object: <cause>.
C27_ObjectFromText ==
  (ValidRuntime(z) /\ pc = "settled") =>
    /\ client \in OtherEngines =>
         outcome = Rejected("createSelectSchema currently only supports PostgreSQL")
    /\ (client = "pg" /\ provider.status = "rejected") =>
         outcome = Rejected("Failed to create schema for table \"" \o tableName
                              \o "\": " \o provider.value.message)
    /\ AnsweredWithoutColumns =>
         outcome = Rejected("Failed to create schema for table \"" \o tableName
                              \o "\": Table \"" \o tableName
                              \o "\" not found or has no columns")
    /\ AnsweredWithColumns =>
         \/ /\ ObjectReturned
            /\ UsedConstructors(outcome.object.code) \subseteq z.constructors
            /\ options.strict \in {JsUndefined, JsBool(TRUE)} =>
                 IsStrictText(outcome.object.code)
            /\ options.strict = JsBool(FALSE) => IsPassthroughText(outcome.object.code)
            /\ FieldNames(outcome.object.code)
                 = SelectSeq(Keys, LAMBDA k : k \notin Range(ExcludeList))
         \/ /\ EvaluationFailed
            /\ z.constructors # AllConstructors

\* C27 witness: an open object with the fields name and email, built by a
\* complete instance from a table of which id is excluded.
C27_Witness ==
  /\ ObjectReturned
  /\ z = JsRuntime(AllConstructors)
  /\ AnsweredWithColumns
  /\ Keys = <<"id", "name", "email">>
  /\ ExcludeList = <<"id">>
  /\ FieldNames(outcome.object.code) = <<"name", "email">>
  /\ IsStrictText(outcome.object.code)

\* C27, second case reached: the instance has no array function, the table
\* has an array column, and the evaluation failure is reported.
C27_WitnessEvaluation ==
  /\ EvaluationFailed
  /\ AnsweredWithColumns
  /\ "tags" \in Range(Keys)
  /\ z = JsRuntime(AllConstructors \ {"array"})
  /\ outcome = Rejected("Failed to create Zod schema object: z.array is not a function")

\* C27, third case reached: columnInfo() was rejected and the call fails with
\* the error of createSelectSchema.
C27_WitnessPropagated ==
  /\ pc = "settled"
  /\ ValidRuntime(z)
  /\ provider.status = "rejected"
  /\ outcome = Rejected("Failed to create schema for table \"users\": connection refused")

(***************************************************************************)
(* Claims about the decorators of mapPgTypeToZod (specification MapSpec)   *)
(***************************************************************************)
NullableDecorators(text) == CountOccurrences(text, ".nullable()", 1)

\* no decorator but the trailing ones: one of each at most, none inside
DecoratedOnceTrailing(text) ==
  /\ NullableDecorators(text) <= 1
  /\ DefaultDecorators(text) <= 1
  /\ NullableDecorators(BaseValidator(text)) = 0
  /\ DefaultDecorators(BaseValidator(text)) = 0

\* C28: every expression mapPgTypeToZod returns has at most one nullable and
\* at most one default decorator, both as trailing suffixes of the whole
\* expression; for an array column they decorate the array, never the element
\* expression inside z.array(...).
C28_DecoratorsOnceTrailing ==
  MapReturned => DecoratedOnceTrailing(zodSchema)

\* the part of C28 that the code satisfies: the tokens that are no array type
C28_ScalarsDecoratedOnce ==
  (MapReturned /\ NormalizeType(pgType) \notin ArrayTypeNames) =>
    DecoratedOnceTrailing(zodSchema)

\* C28, the failing case reached: a nullable text[] column has the decorator
\* on the element and on the array.
C28_ArrayElementDecorated ==
  /\ MapReturned
  /\ pgType = "text[]"
  /\ columnInfo.nullable = JsBool(TRUE)
  /\ columnInfo.defaultValue \in {JsNull, JsUndefined}
  /\ zodSchema = "z.array(z.string().nullable()).nullable()"

\* the kind of literal the argument of a default decorator is
LiteralKind(arg) ==
  IF StartsWith(arg, "\"") THEN "string"
  ELSE IF arg \in {"true", "false"} THEN "boolean"
  ELSE IF NumericLiteral(arg) THEN "number"
  ELSE "other"

\* the kind of value the base validator of the expression accepts
AcceptedKind(text) ==
  LET base == BaseValidator(text)
  IN IF base \in {"z.number()", "z.number().int()"} THEN "number"
     ELSE IF base = "z.boolean()" THEN "boolean"
     ELSE IF StartsWith(base, "z.string()") THEN "string"
     ELSE "other"

\* C29: when mapPgTypeToZod emits a default decorator, the literal is of a kind
\* the base validator accepts: no string or boolean literal on a number
\* validator, no string or numeric literal on a boolean validator, no numeric
\* or boolean literal on a string validator.
C29_DefaultKindAccepted ==
  (MapReturned /\ HasDefaultDecorator(zodSchema)) =>
    LET kind == LiteralKind(TrailingDefaultArgument(zodSchema))
        accepted == AcceptedKind(zodSchema)
    IN /\ accepted = "number" => kind \notin {"string", "boolean"}
       /\ accepted = "boolean" => kind \notin {"string", "number"}
       /\ accepted = "string" => kind \notin {"number", "boolean"}

\* the part of C29 that the code satisfies: a default between single quotes on
\* a string validator, a number on a number validator, true or false on a
\* boolean validator
C29_MatchingDefaults ==
  (MapReturned /\ HasDefaultDecorator(zodSchema)
     /\ \/ AcceptedKind(zodSchema) = "string" /\ QuotedDefault
        \/ AcceptedKind(zodSchema) = "number" /\ columnInfo.defaultValue.kind = "number"
        \/ AcceptedKind(zodSchema) = "boolean" /\ columnInfo.defaultValue.kind = "boolean")
    => C29_DefaultKindAccepted

\* C29, the failing case reached: an integer column with the default 'test'
\* has a string literal as the default of a number validator.
C29_StringDefaultOnNumber ==
  /\ MapReturned
  /\ pgType = "integer"
  /\ columnInfo.defaultValue = JsStr("'test'")
  /\ columnInfo.nullable = JsBool(FALSE)
  /\ zodSchema = "z.number().int().default(\"test\")"

C30_WitnessMapper ==
  /\ mpc = "called"
  /\ zodSchema = "z.array(z.string())"
  /\ pgType = "text[]"
  /\ columnInfo.maxLength = JsNum(255)

====
